---- MODULE Spec2Model ----
(***************************************************************************)
(* A model of the retrieval engine of LegalSathi                           *)
(* (src/backend/embedding_utils.py): the chunker chunk_text, the embedding *)
(* adapter embed_texts, and the FAISS-backed index_document, retrieve and  *)
(* reindex_all_files.                                                      *)
(*                                                                         *)
(* A text is a sequence of one-character strings.  The chunker is modelled *)
(* one loop iteration at a time (ForIter, WhileIter, Return); chunk_text   *)
(* runs these iterations to the end.                                       *)
(***************************************************************************)
EXTENDS Integers, Sequences, FiniteSets, TLC

(***************************************************************************)
(* Bounds of the model.                                                    *)
(***************************************************************************)
\* longest text drawn exhaustively from Alphabet
MaxLen == 6
\* largest chunk_size argument tried
MaxChunkSize == 4
\* largest overlap argument tried (values >= chunk_size are the invalid ones)
MaxOverlap == 5
\* the hard-split loop is cut off after this many chunks (only an invalid
\* overlap can run that long)
MaxChunks == 12

Alphabet == {"a", "b", "\n"}

Min(a, b) == IF a < b THEN a ELSE b
Max(a, b) == IF a > b THEN a ELSE b

(***************************************************************************)
(* Python string primitives used by chunk_text.                            *)
(***************************************************************************)
\* the characters str.strip() removes
Whitespace == {" ", "\t", "\n", "\r"}

\* s[:n] for n >= 0
PyPrefix(s, n) == SubSeq(s, 1, Min(n, Len(s)))

\* s[k:], k may be negative (counted from the end)
PySuffixFrom(s, k) ==
    LET start == IF k < 0 THEN Max(Len(s) + k, 0) ELSE Min(k, Len(s))
    IN  SubSeq(s, start + 1, Len(s))

RECURSIVE LStrip(_)
LStrip(s) ==
    IF s # <<>> /\ Head(s) \in Whitespace THEN LStrip(Tail(s)) ELSE s

RECURSIVE RStrip(_)
RStrip(s) ==
    IF s # <<>> /\ s[Len(s)] \in Whitespace
    THEN RStrip(SubSeq(s, 1, Len(s) - 1))
    ELSE s

\* p.strip()
Strip(s) == RStrip(LStrip(s))

\* number of consecutive "\n" in s from position i on
RECURSIVE NewlineRun(_, _)
NewlineRun(s, i) ==
    IF i <= Len(s) /\ s[i] = "\n" THEN 1 + NewlineRun(s, i + 1) ELSE 0

\* length of the match of  \n{2,}|\r\n{2,}  at position i of s, 0 if none
SepMatch(s, i) ==
    IF s[i] = "\n"
    THEN (IF NewlineRun(s, i) >= 2 THEN NewlineRun(s, i) ELSE 0)
    ELSE IF s[i] = "\r"
    THEN (IF NewlineRun(s, i + 1) >= 2 THEN 1 + NewlineRun(s, i + 1) ELSE 0)
    ELSE 0

\* re.split(r'\n{2,}|\r\n{2,}', s) scanning from position i with the part
\* read so far in cur
RECURSIVE SplitFrom(_, _, _)
SplitFrom(s, i, cur) ==
    IF i > Len(s) THEN <<cur>>
    ELSE IF SepMatch(s, i) > 0
         THEN <<cur>> \o SplitFrom(s, i + SepMatch(s, i), <<>>)
         ELSE SplitFrom(s, i + 1, Append(cur, s[i]))

ReSplit(s) == SplitFrom(s, 1, <<>>)

(***************************************************************************)
(* chunk_text, one loop iteration at a time.  A chunker state holds the    *)
(* locals of the function: parts (the paragraphs not yet visited), buf,    *)
(* temp, chunks, and the position pc ("for": at the head of the for loop,  *)
(* "while": at the head of the hard-split loop, "done": returned).         *)
(* cont and bufcont are history only: cont[i] tells that chunks[i] starts  *)
(* inside a paragraph that the hard split cut (so that it repeats the last *)
(* `overlap` characters of chunks[i-1]), bufcont the same for buf.         *)
(***************************************************************************)
ChunkEntry(text) ==
    [pc |-> "for", parts |-> ReSplit(text), buf |-> <<>>, temp |-> <<>>,
     chunks |-> <<>>, cont |-> <<>>, bufcont |-> FALSE]

\* ForIter with the separator left out of the length test
\* (len(buf) + len(p) <= chunk_size)
ForIter_NoSepLen(s, chunk_size, overlap) ==
    LET p == Strip(Head(s.parts))
        rest == Tail(s.parts)
    IN  IF p = <<>> THEN [s EXCEPT !.parts = rest]
        ELSE IF Len(s.buf) + Len(p) <= chunk_size
        THEN [s EXCEPT !.parts = rest,
                       !.buf = IF s.buf # <<>> THEN s.buf \o <<"\n", "\n">> \o p
                               ELSE p]
        ELSE [s EXCEPT !.parts = rest,
                       !.chunks = IF s.buf # <<>> THEN Append(s.chunks, s.buf)
                                  ELSE s.chunks,
                       !.cont = IF s.buf # <<>> THEN Append(s.cont, s.bufcont)
                                ELSE s.cont,
                       !.bufcont = FALSE,
                       !.temp = p,
                       !.pc = "while"]

\* ForIter that starts the new paragraph without flushing buf
ForIter_NoFlush(s, chunk_size, overlap) ==
    LET p == Strip(Head(s.parts))
        rest == Tail(s.parts)
    IN  IF p = <<>> THEN [s EXCEPT !.parts = rest]
        ELSE IF Len(s.buf) + Len(p) + 2 <= chunk_size
        THEN [s EXCEPT !.parts = rest,
                       !.buf = IF s.buf # <<>> THEN s.buf \o <<"\n", "\n">> \o p
                               ELSE p]
        ELSE [s EXCEPT !.parts = rest,
                       !.bufcont = FALSE,
                       !.temp = p,
                       !.pc = "while"]

\* one iteration of  for p in parts  (lines 93-103)
ForIter(s, chunk_size, overlap) ==
    LET p == Strip(Head(s.parts))
        rest == Tail(s.parts)
    IN  IF p = <<>> THEN [s EXCEPT !.parts = rest]
        ELSE IF Len(s.buf) + Len(p) + 2 <= chunk_size
        THEN [s EXCEPT !.parts = rest,
                       !.buf = IF s.buf # <<>> THEN s.buf \o <<"\n", "\n">> \o p
                               ELSE p]
        ELSE [s EXCEPT !.parts = rest,
                       !.chunks = IF s.buf # <<>> THEN Append(s.chunks, s.buf)
                                  ELSE s.chunks,
                       !.cont = IF s.buf # <<>> THEN Append(s.cont, s.bufcont)
                                ELSE s.cont,
                       !.bufcont = FALSE,
                       !.temp = p,
                       !.pc = "while"]

\* WhileIter that goes on from the end of the slice (temp[chunk_size:])
WhileIter_NoOverlap(s, chunk_size, overlap) ==
    IF Len(s.temp) > chunk_size
    THEN [s EXCEPT !.chunks = Append(s.chunks, PyPrefix(s.temp, chunk_size)),
                   !.cont = Append(s.cont, s.bufcont),
                   !.bufcont = TRUE,
                   !.temp = PySuffixFrom(s.temp, chunk_size)]
    ELSE [s EXCEPT !.buf = s.temp, !.pc = "for"]

\* WhileIter that goes on from position overlap (temp[overlap:])
WhileIter_FromOverlap(s, chunk_size, overlap) ==
    IF Len(s.temp) > chunk_size
    THEN [s EXCEPT !.chunks = Append(s.chunks, PyPrefix(s.temp, chunk_size)),
                   !.cont = Append(s.cont, s.bufcont),
                   !.bufcont = TRUE,
                   !.temp = PySuffixFrom(s.temp, overlap)]
    ELSE [s EXCEPT !.buf = s.temp, !.pc = "for"]

\* WhileIter whose slices end where the next one starts
\* (temp[:chunk_size - overlap])
WhileIter_ShortSlice(s, chunk_size, overlap) ==
    IF Len(s.temp) > chunk_size
    THEN [s EXCEPT !.chunks = Append(s.chunks,
                                     PyPrefix(s.temp, chunk_size - overlap)),
                   !.cont = Append(s.cont, s.bufcont),
                   !.bufcont = TRUE,
                   !.temp = PySuffixFrom(s.temp, chunk_size - overlap)]
    ELSE [s EXCEPT !.buf = s.temp, !.pc = "for"]

\* one test of  while len(temp) > chunk_size  and its body or exit
\* (lines 104-107)
WhileIter(s, chunk_size, overlap) ==
    IF Len(s.temp) > chunk_size
    THEN [s EXCEPT !.chunks = Append(s.chunks, PyPrefix(s.temp, chunk_size)),
                   !.cont = Append(s.cont, s.bufcont),
                   !.bufcont = TRUE,
                   !.temp = PySuffixFrom(s.temp, chunk_size - overlap)]
    ELSE [s EXCEPT !.buf = s.temp, !.pc = "for"]

\* the end of the for loop (lines 108-110)
Return(s) ==
    [s EXCEPT !.chunks = IF s.buf # <<>> THEN Append(s.chunks, s.buf)
                         ELSE s.chunks,
              !.cont = IF s.buf # <<>> THEN Append(s.cont, s.bufcont)
                       ELSE s.cont,
              !.pc = "done"]

ChunkStep(s, chunk_size, overlap) ==
    IF s.pc = "while" THEN WhileIter(s, chunk_size, overlap)
    ELSE IF s.parts # <<>> THEN ForIter(s, chunk_size, overlap)
    ELSE Return(s)

RECURSIVE ChunkRun(_, _, _)
ChunkRun(s, chunk_size, overlap) ==
    IF s.pc = "done" THEN s
    ELSE ChunkRun(ChunkStep(s, chunk_size, overlap), chunk_size, overlap)

\* chunk_text(text, chunk_size, overlap); defined when it terminates
chunk_text(text, chunk_size, overlap) ==
    ChunkRun(ChunkEntry(text), chunk_size, overlap).chunks

(***************************************************************************)
(* The inputs of the chunker specification.                                *)
(***************************************************************************)
RECURSIVE TextsOfLen(_)
TextsOfLen(n) ==
    IF n = 0 THEN {<<>>}
    ELSE {Append(t, c) : t \in TextsOfLen(n - 1), c \in Alphabet}

Texts == UNION {TextsOfLen(n) : n \in 0..MaxLen}

\* longer texts: a long paragraph whose remainder is joined with the next
\* paragraph, and a paragraph cut into three slices
LongTexts ==
    { <<"a", "b", "a", "b", "a", "\n", "\n", "b">>,
      <<"a", "\n", "\n", "a", "b", "a", "b", "b", "a", "b", "a">>,
      <<"a", "b", "b", "a", "a", "b", "a", "b", "b", "a">> }

(***************************************************************************)
(* The index: module configuration, the document store and the FAISS       *)
(* index files.                                                            *)
(***************************************************************************)
\* bounds of the index model
\* number of calls (index_document, retrieve, reindex_all_files) started in
\* one behaviour
MaxCalls == 2
\* largest top_k a retrieve call is given
MaxTopK == 2
\* retrieve calls made after the MaxCalls calls, each while no index_document
\* call runs
MaxLater == 1

\* CHUNK_SIZE and CHUNK_OVERLAP, scaled down: the environment variables read
\* at lines 43-44 default to 2000 and 300, out of the reach of a model checker
DEFAULT_CHUNK_SIZE == 4
DEFAULT_OVERLAP == 1

\* the dimension of the sentence-transformers model (all-MiniLM-L6-v2)
LocalDim == 384
\* the dimension the code takes Groq embeddings to have (FALLBACK_EMBED_DIM)
GroqDim == 1536

Procs == {1, 2}
IndexNames == {"global", "tenant"}

\* The file_records collection: the uploaded source documents.  path tells
\* whether stored_path names a file on disk, extract what the extraction of
\* its text does ("ok", or "raises": the pdf branch imports a function that
\* pdf_utils does not define, a corrupt docx makes python-docx raise).
FileRecords ==
    { [id |-> 1, path |-> "exists", extract |-> "ok",
       text |-> <<"a", "b", "c", "\n", "\n", "b", "a">>],
      [id |-> 2, path |-> "exists", extract |-> "ok",
       text |-> <<" ", "\n", "\n", "\n", " ">>],
      [id |-> 3, path |-> "exists", extract |-> "ok",
       text |-> <<"a", "a", "b", "\n", "\n", "b", "b", "a", "\n", "\n",
                  "c", "a", "b", "\n", "\n", "c", "c", "\n", "\n",
                  "a", "c", "c">>],
      [id |-> 4, path |-> "missing", extract |-> "ok", text |-> <<"a">>],
      [id |-> 5, path |-> "exists", extract |-> "raises", text |-> <<"b">>] }

FileIds == {f.id : f \in FileRecords}
File(id) == CHOOSE f \in FileRecords : f.id = id

\* list(db.get_collection("file_records").find({})): in insertion order
RECURSIVE FileList(_)
FileList(ids) ==
    IF ids = {} THEN <<>>
    ELSE LET m == CHOOSE x \in ids : \A y \in ids : x <= y
         IN  <<m>> \o FileList(ids \ {m})

\* the texts a caller searches for
Queries == { <<"a", "b", "c">>, <<"c", "c">> }

VARIABLES
    ck,          \* a call of chunk_text: its arguments and locals
    groq_on,     \* EMBED_WITH_GROQ and GROQ_CLIENT is not None
    st_on,       \* USE_SENTENCE_TRANSFORMERS
    embeddings,  \* the Mongo collection "embeddings": a set of chunk metas
    index_file,  \* the file faiss_<name>.index of every index name
    proc,        \* per process: the call in progress and its locals
    ncalls,      \* history: the number of calls started
    tm,          \* a call of trim_messages: its arguments and locals
    conversations, \* the Mongo collection "conversations"
    messages_db, \* the Mongo collection "messages", by timestamp
    req,         \* per request of the backend: its position and locals
    nconv,       \* the number of conversation ids handed out
    user_state,  \* the WhatsApp bot's user_state: the stage of every sender
    pdf_files,   \* the number of files in the bot's PDF_DIR
    answer       \* per sender: the last message handled and its answer

trimvars == <<tm>>
chatvars == <<conversations, messages_db, req, nconv>>
botvars == <<user_state, pdf_files, answer>>
appvars == <<trimvars, chatvars, botvars>>
vars == <<ck, groq_on, st_on, embeddings, index_file, proc, ncalls, appvars>>
chunkvars == <<ck>>
indexvars == <<groq_on, st_on, embeddings, index_file, proc, ncalls>>

\* faiss.IndexIDMap(faiss.IndexFlatIP(dim)): the dimension and the vectors
\* with their ids
create_faiss_index(dim) == [exists |-> TRUE, d |-> dim, vecs |-> {}]
NoFile == [exists |-> FALSE, d |-> 0, vecs |-> {}]

\* load_index(name, dim) (lines 73-84): the file when it is there, a new
\* index of dimension dim otherwise
load_index(name, dim) ==
    IF index_file[name].exists THEN index_file[name]
    ELSE create_faiss_index(dim)

\* what embed_texts (lines 142-165) can do under the configuration: embed
\* with Groq, embed with sentence-transformers (Groq off or failed), or raise
EmbedOutcomes ==
    (IF groq_on THEN {"groq"} ELSE {})
        \cup (IF st_on THEN {"local"} ELSE {"raise"})

EmbedDim(backend) == IF backend = "groq" THEN GroqDim ELSE LocalDim

\* the normalised vector of a text: its dimension, and the text it stands for
Embed(backend, text) ==
    [dim |-> EmbedDim(backend), backend |-> backend, text |-> text]

RECURSIVE EmbedAll(_, _)
EmbedAll(backend, texts) ==
    IF texts = <<>> THEN <<>>
    ELSE <<Embed(backend, Head(texts))>> \o EmbedAll(backend, Tail(texts))

\* a process that runs no call
Idle ==
    [op |-> "none", pc |-> "idle", call |-> 0, index_name |-> "global",
     file |-> 0, nested |-> FALSE, chunks |-> <<>>, vecs |-> <<>>, dim |-> 0,
     index |-> NoFile, i |-> 0, files |-> <<>>, fresh |-> NoFile,
     query |-> <<>>, top_k |-> 0, cand |-> <<>>,
     outcome |-> "none", err |-> "none", ret |-> <<>>,
     embedded |-> FALSE, failed |-> {}]

\* reindex_all_files is a maintenance operation: the model starts it while
\* no other call is in progress, and starts no index_document while it runs
NoReindexRuns == \A q \in Procs : proc[q].pc = "idle" \/ proc[q].op # "reindex"
NoIndexRuns == \A q \in Procs : proc[q].pc = "idle" \/ proc[q].op # "index"
AllIdle == \A q \in Procs : proc[q].pc = "idle"

\* the host may start a call: one of the first MaxCalls calls, which may
\* overlap, or a later retrieve once the host's index_document calls ended
MayCall(later) ==
    \/ ncalls < MaxCalls
    \/ later /\ ncalls < MaxCalls + MaxLater /\ NoIndexRuns

\* the locals of a call dropped at its end; what the caller sees (outcome,
\* err, ret) and the history stay
EndCall(l, outcome, err, ret) ==
    [l EXCEPT !.pc = "idle", !.outcome = outcome, !.err = err, !.ret = ret,
              !.vecs = <<>>, !.dim = 0, !.index = NoFile, !.i = 0,
              !.files = <<>>, !.fresh = NoFile, !.cand = <<>>,
              !.nested = FALSE]

\* EndIndexDocument without the try/except of lines 287-306: an exception
\* of index_document leaves reindex_all_files
EndIndexDocument_NoCatch(l, outcome, err, ret) ==
    IF l.nested /\ outcome = "returned"
    THEN [l EXCEPT !.pc = "x_file", !.vecs = <<>>, !.dim = 0,
                   !.index = NoFile, !.i = 0, !.chunks = <<>>]
    ELSE EndCall(l, outcome, err, ret)

\* the end of index_document: back in the loop of reindex_all_files (which
\* drops the result, and catches and prints an exception, lines 304-306), or
\* back at the caller
\* (failed is history: the files whose index_document raised)
EndIndexDocument(l, outcome, err, ret) ==
    IF l.nested
    THEN [l EXCEPT !.pc = "x_file", !.vecs = <<>>, !.dim = 0,
                   !.index = NoFile, !.i = 0, !.chunks = <<>>,
                   !.failed = IF outcome = "raised" THEN @ \cup {l.file}
                              ELSE @]
    ELSE EndCall(l, outcome, err, ret)

\* NewId that numbers the chunks of a document from 1 (the position of the
\* chunk as its id)
NewId_ChunkIndex(l, k) == <<0, 0, k>>

\* the id of the k-th chunk of a call on a file (line 204 draws 63 random
\* bits; the model takes ids that differ)
NewId(l, k) == <<l.call, l.file, k>>

Meta(l, k) ==
    [index_name |-> l.index_name, faiss_id |-> NewId(l, k),
     file_record_id |-> l.file, chunk_text |-> l.chunks[k]]

RECURSIVE Metas(_, _)
Metas(l, k) == IF k = 0 THEN <<>> ELSE Append(Metas(l, k - 1), Meta(l, k))

(***************************************************************************)
(* index_document (lines 168-225)                                          *)
(***************************************************************************)
\* EnterIndexDocument without the early return of line 176-177
EnterIndexDocument_NoEarlyReturn(l, text) ==
    [l EXCEPT !.chunks = chunk_text(text, DEFAULT_CHUNK_SIZE, DEFAULT_OVERLAP),
              !.embedded = FALSE, !.i = 0, !.pc = "i_embed"]

\* lines 175-177: chunk the text; no chunk, no work
EnterIndexDocument(l, text) ==
    LET chunks == chunk_text(text, DEFAULT_CHUNK_SIZE, DEFAULT_OVERLAP)
        m == [l EXCEPT !.chunks = chunks, !.embedded = FALSE, !.i = 0]
    IN  IF chunks = <<>> THEN EndIndexDocument(m, "returned", "none", <<>>)
        ELSE [m EXCEPT !.pc = "i_embed"]

\* a caller hands the text of an uploaded file to index_document
CallIndexDocument(p) ==
    /\ proc[p].pc = "idle"
    /\ MayCall(FALSE)
    /\ NoReindexRuns
    /\ \E f \in FileRecords, name \in IndexNames :
         /\ f.path = "exists" /\ f.extract = "ok"
         /\ proc' = [proc EXCEPT ![p] = EnterIndexDocument(
                        [Idle EXCEPT !.op = "index", !.call = ncalls + 1,
                                     !.index_name = name, !.file = f.id],
                        f.text)]
    /\ ncalls' = ncalls + 1
    /\ UNCHANGED <<embeddings, index_file, groq_on, st_on, ck, appvars>>

\* IdxEmbedStep that catches the exception of embed_texts and returns
IdxEmbedStep_Swallow(l, out) ==
    IF out = "raise"
    THEN EndIndexDocument([l EXCEPT !.embedded = TRUE],
                          "returned", "embedding", <<>>)
    ELSE [l EXCEPT !.embedded = TRUE, !.vecs = EmbedAll(out, l.chunks),
                   !.dim = EmbedDim(out),
                   !.index = load_index(l.index_name, EmbedDim(out)),
                   !.pc = "i_insert"]

\* lines 179-193: vecs, dim = embed_texts(chunks), an exception leaves the
\* call; then index = load_index(index_name, dim=dim)
IdxEmbedStep(l, out) ==
    IF out = "raise"
    THEN EndIndexDocument([l EXCEPT !.embedded = TRUE],
                          "raised", "embedding", <<>>)
    ELSE [l EXCEPT !.embedded = TRUE, !.vecs = EmbedAll(out, l.chunks),
                   !.dim = EmbedDim(out),
                   !.index = load_index(l.index_name, EmbedDim(out)),
                   !.pc = "i_insert"]

IdxEmbed(p) ==
    /\ proc[p].pc = "i_embed"
    /\ \E out \in EmbedOutcomes :
         proc' = [proc EXCEPT ![p] = IdxEmbedStep(proc[p], out)]
    /\ UNCHANGED <<embeddings, index_file, ncalls, groq_on, st_on, ck, appvars>>

\* IdxInsert that replaces the records the collection holds for the file
IdxInsert_Upsert(p) ==
    /\ proc[p].pc = "i_insert"
    /\ LET l == proc[p]
           k == l.i + 1
       IN  /\ embeddings' =
                 {m \in embeddings : \/ m.file_record_id # l.file
                                     \/ m.index_name # l.index_name
                                     \/ m.faiss_id[1] = l.call}
                     \cup {Meta(l, k)}
           /\ proc' = [proc EXCEPT ![p].i = k,
                          ![p].pc = IF k = Len(l.chunks) THEN "i_add"
                                    ELSE "i_insert"]
    /\ UNCHANGED <<index_file, ncalls, groq_on, st_on, ck, appvars>>

\* lines 202-219, one iteration: the meta of the next chunk goes into the
\* collection
IdxInsert(p) ==
    /\ proc[p].pc = "i_insert"
    /\ LET l == proc[p]
           k == l.i + 1
       IN  /\ embeddings' = embeddings \cup {Meta(l, k)}
           /\ proc' = [proc EXCEPT ![p].i = k,
                          ![p].pc = IF k = Len(l.chunks) THEN "i_add"
                                    ELSE "i_insert"]
    /\ UNCHANGED <<index_file, ncalls, groq_on, st_on, ck, appvars>>

\* index.add_with_ids(arr, ids) (line 223): FAISS takes the vectors only
\* when they have the dimension of the index, and raises otherwise
AddWithIds(index, l) ==
    [index EXCEPT !.vecs = @ \cup { [id |-> NewId(l, k), vec |-> l.vecs[k]] :
                                      k \in 1..Len(l.vecs) }]

\* lines 222-225: add the vectors, write the index file, return the metas
IdxAddSave(p) ==
    /\ proc[p].pc = "i_add"
    /\ LET l == proc[p]
       IN  IF l.dim # l.index.d
           THEN /\ proc' = [proc EXCEPT ![p] =
                              EndIndexDocument(l, "raised", "dimension", <<>>)]
                /\ UNCHANGED index_file
           ELSE /\ index_file' = [index_file EXCEPT ![l.index_name] =
                                     AddWithIds(l.index, l)]
                /\ proc' = [proc EXCEPT ![p] =
                              EndIndexDocument(l, "returned", "none",
                                               Metas(l, Len(l.chunks)))]
    /\ UNCHANGED <<embeddings, ncalls, groq_on, st_on, ck, appvars>>

(***************************************************************************)
(* retrieve (lines 227-263)                                                *)
(***************************************************************************)
CallRetrieve(p) ==
    /\ proc[p].pc = "idle"
    /\ MayCall(TRUE)
    /\ \E q \in Queries, k \in 1..MaxTopK, name \in IndexNames :
         proc' = [proc EXCEPT ![p] =
                     [Idle EXCEPT !.op = "retrieve", !.call = ncalls + 1,
                                  !.index_name = name, !.query = q,
                                  !.top_k = k, !.pc = "r_search"]]
    /\ ncalls' = ncalls + 1
    /\ UNCHANGED <<embeddings, index_file, groq_on, st_on, ck, appvars>>

\* the inner product of two normalised vectors, in hundredths: 100 for the
\* vectors of one text from one backend, less for any other pair (the share
\* of positions at which the two texts agree)
Score(u, v) ==
    IF u.text = v.text /\ u.backend = v.backend THEN 100
    ELSE LET n == Max(Len(u.text), Len(v.text))
             same == Cardinality({i \in 1..Min(Len(u.text), Len(v.text)) :
                                     u.text[i] = v.text[i]})
         IN  IF n = 0 THEN 0 ELSE (90 * same) \div n

\* index.search(q, top_k) (line 244): the ids of the top_k vectors by
\* inner product, best first (ties in any order)
RECURSIVE Rankings(_, _, _)
Rankings(q, entries, k) ==
    IF k = 0 \/ entries = {} THEN {<<>>}
    ELSE UNION { { <<e>> \o r : r \in Rankings(q, entries \ {e}, k - 1) } :
                 e \in { x \in entries : \A y \in entries :
                            Score(q, x.vec) >= Score(q, y.vec) } }

\* RetSearchStep that returns an empty result when embed_texts raises
RetSearchStep_Swallow(l, out, index) ==
    IF out = "raise"
    THEN {EndCall([l EXCEPT !.embedded = TRUE], "returned", "embedding", <<>>)}
    ELSE IF index.vecs = {}
    THEN {EndCall([l EXCEPT !.embedded = TRUE], "returned", "none", <<>>)}
    ELSE IF index.d # EmbedDim(out)
    THEN {EndCall([l EXCEPT !.embedded = TRUE], "raised", "dimension", <<>>)}
    ELSE { [l EXCEPT !.embedded = TRUE, !.vecs = <<Embed(out, l.query)>>,
                     !.dim = EmbedDim(out), !.cand = r, !.pc = "r_lookup"] :
           r \in Rankings(Embed(out, l.query), index.vecs, l.top_k) }

\* RetSearchStep that searches the index before the test of line 241: FAISS
\* raises on the dimension also when the index is empty
RetSearchStep_SearchFirst(l, out, index) ==
    IF out = "raise"
    THEN {EndCall([l EXCEPT !.embedded = TRUE], "raised", "embedding", <<>>)}
    ELSE IF index.d # EmbedDim(out)
    THEN {EndCall([l EXCEPT !.embedded = TRUE], "raised", "dimension", <<>>)}
    ELSE IF index.vecs = {}
    THEN {EndCall([l EXCEPT !.embedded = TRUE], "returned", "none", <<>>)}
    ELSE { [l EXCEPT !.embedded = TRUE, !.vecs = <<Embed(out, l.query)>>,
                     !.dim = EmbedDim(out), !.cand = r, !.pc = "r_lookup"] :
           r \in Rankings(Embed(out, l.query), index.vecs, l.top_k) }

\* lines 237-246: embed the query (an exception leaves the call), load the
\* index and search it; FAISS raises when the query has another dimension
\* than the index
RetSearchStep(l, out, index) ==
    IF out = "raise"
    THEN {EndCall([l EXCEPT !.embedded = TRUE], "raised", "embedding", <<>>)}
    ELSE IF index.vecs = {}
    THEN {EndCall([l EXCEPT !.embedded = TRUE], "returned", "none", <<>>)}
    ELSE IF index.d # EmbedDim(out)
    THEN {EndCall([l EXCEPT !.embedded = TRUE], "raised", "dimension", <<>>)}
    ELSE { [l EXCEPT !.embedded = TRUE, !.vecs = <<Embed(out, l.query)>>,
                     !.dim = EmbedDim(out), !.cand = r, !.pc = "r_lookup"] :
           r \in Rankings(Embed(out, l.query), index.vecs, l.top_k) }

RetSearch(p) ==
    /\ proc[p].pc = "r_search"
    /\ \E out \in EmbedOutcomes :
         \E l \in RetSearchStep(proc[p], out,
                                load_index(proc[p].index_name, EmbedDim(out))) :
            proc' = [proc EXCEPT ![p] = l]
    /\ UNCHANGED <<embeddings, index_file, ncalls, groq_on, st_on, ck, appvars>>

\* Hits without the test of lines 252-253: a candidate of the index makes a
\* hit also when find_one finds no meta for it
RECURSIVE Hits_NoSkip(_, _, _)
Hits_NoSkip(l, cand, metas) ==
    IF cand = <<>> THEN <<>>
    ELSE LET e == Head(cand)
             found == {m \in metas : m.faiss_id = e.id
                                     /\ m.index_name = l.index_name}
         IN  <<[score |-> Score(l.vecs[1], e.vec),
                faiss_id |-> e.id,
                chunk_text |-> e.vec.text,
                file_record_id |-> e.id[2]]>>
                 \o Hits_NoSkip(l, Tail(cand), metas)

\* lines 247-263: the hits whose meta find_one finds
RECURSIVE Hits(_, _, _)
Hits(l, cand, metas) ==
    IF cand = <<>> THEN <<>>
    ELSE LET e == Head(cand)
             found == {m \in metas : m.faiss_id = e.id
                                     /\ m.index_name = l.index_name}
         IN  IF found = {} THEN Hits(l, Tail(cand), metas)
             ELSE LET m == CHOOSE x \in found : TRUE
                  IN  <<[score |-> Score(l.vecs[1], e.vec),
                         faiss_id |-> e.id,
                         chunk_text |-> m.chunk_text,
                         file_record_id |-> m.file_record_id]>>
                          \o Hits(l, Tail(cand), metas)

RetLookup(p) ==
    /\ proc[p].pc = "r_lookup"
    /\ proc' = [proc EXCEPT ![p] =
                   EndCall(proc[p], "returned", "none",
                           Hits(proc[p], proc[p].cand, embeddings))]
    /\ UNCHANGED <<embeddings, index_file, ncalls, groq_on, st_on, ck, appvars>>

(***************************************************************************)
(* reindex_all_files (lines 265-309)                                       *)
(***************************************************************************)
CallReindex(p) ==
    /\ AllIdle
    /\ MayCall(FALSE)
    /\ \E name \in IndexNames :
         proc' = [proc EXCEPT ![p] =
                     [Idle EXCEPT !.op = "reindex", !.call = ncalls + 1,
                                  !.index_name = name, !.pc = "x_delete"]]
    /\ ncalls' = ncalls + 1
    /\ UNCHANGED <<embeddings, index_file, groq_on, st_on, ck, appvars>>

\* lines 277-285: guess the dimension (get_sentence_model raises when
\* sentence-transformers is missing), create the fresh index, list the files
RxCreate(l) ==
    IF groq_on
    THEN [l EXCEPT !.fresh = create_faiss_index(GroqDim),
                   !.files = FileList(FileIds), !.pc = "x_file"]
    ELSE IF st_on
    THEN [l EXCEPT !.fresh = create_faiss_index(LocalDim),
                   !.files = FileList(FileIds), !.pc = "x_file"]
    ELSE EndCall(l, "raised", "model", <<>>)

\* lines 274-285: delete_many({"index_name": index_name}), then the fresh
\* index and the list of files
RxDelete(p) ==
    /\ proc[p].pc = "x_delete"
    /\ embeddings' = {m \in embeddings : m.index_name # proc[p].index_name}
    /\ proc' = [proc EXCEPT ![p] = RxCreate(proc[p])]
    /\ UNCHANGED <<index_file, ncalls, groq_on, st_on, ck, appvars>>

\* lines 286-304, one iteration up to the chunking inside index_document: a
\* file without a path on disk is skipped, an extraction that raises is
\* caught and printed
RxFile(p) ==
    /\ proc[p].pc = "x_file"
    /\ proc[p].files # <<>>
    /\ LET l == proc[p]
           f == File(Head(l.files))
           m == [l EXCEPT !.files = Tail(l.files)]
       IN  proc' = [proc EXCEPT ![p] =
              IF f.path # "exists" \/ f.extract # "ok" THEN m
              ELSE EnterIndexDocument([m EXCEPT !.file = f.id,
                                                !.nested = TRUE], f.text)]
    /\ UNCHANGED <<embeddings, index_file, ncalls, groq_on, st_on, ck, appvars>>

\* lines 307-309: save_index(index, index_name) writes the index created at
\* line 283; return True
RxSave(p) ==
    /\ proc[p].pc = "x_file"
    /\ proc[p].files = <<>>
    /\ index_file' = [index_file EXCEPT ![proc[p].index_name] = proc[p].fresh]
    /\ proc' = [proc EXCEPT ![p] =
                   EndCall([proc[p] EXCEPT !.file = 0, !.chunks = <<>>],
                           "returned", "none", <<TRUE>>)]
    /\ UNCHANGED <<embeddings, ncalls, groq_on, st_on, ck, appvars>>

(***************************************************************************)
(* trim_messages (src/backend/app.py, lines 127-150), one step at a time.  *)
(* A message is a record of its role and its content (a sequence of        *)
(* characters); trim_messages reads the length of the content only.        *)
(***************************************************************************)
\* bounds of the inputs of trim_messages
MaxMsgs == 3
MaxContent == 3
MaxTrimChars == 6

Roles == {"system", "user", "assistant"}

\* a content of n characters
Filler(n) == [i \in 1..n |-> "x"]

Msgs == [role : Roles, content : {Filler(n) : n \in 0..MaxContent}]

RECURSIVE MsgLists(_)
MsgLists(n) ==
    IF n = 0 THEN {<<>>}
    ELSE {Append(l, m) : l \in MsgLists(n - 1), m \in Msgs}

\* sum(len(m["content"]) for m in messages)
RECURSIVE SumLen(_)
SumLen(messages) ==
    IF messages = <<>> THEN 0
    ELSE Len(Head(messages).content) + SumLen(Tail(messages))

\* list(reversed(l))
RECURSIVE Reversed(_)
Reversed(l) ==
    IF l = <<>> THEN <<>> ELSE Append(Reversed(Tail(l)), Head(l))

\* the call at its first line; rest holds the messages the for loop has not
\* visited (it visits them from the last one)
TrimEntry(messages, max_chars) ==
    [messages |-> messages, max_chars |-> max_chars, pc |-> "test",
     rest |-> <<>>, trimmed |-> <<>>, running |-> 0, ret |-> <<>>]

\* lines 132-138: the total and the early return of the list itself
TrimTest(t) ==
    IF SumLen(t.messages) <= t.max_chars
    THEN [t EXCEPT !.pc = "done", !.ret = t.messages]
    ELSE [t EXCEPT !.pc = "for", !.rest = t.messages, !.trimmed = <<>>,
                   !.running = 0]

\* TrimForIter that skips a message that does not fit and goes on
\* (continue for break)
TrimForIter_Continue(t) ==
    IF t.rest = <<>> THEN [t EXCEPT !.pc = "return"]
    ELSE LET m == t.rest[Len(t.rest)]
             length == Len(m.content)
         IN  IF t.running + length <= t.max_chars
             THEN [t EXCEPT !.trimmed = Append(t.trimmed, m),
                            !.running = t.running + length,
                            !.rest = SubSeq(t.rest, 1, Len(t.rest) - 1)]
             ELSE [t EXCEPT !.rest = SubSeq(t.rest, 1, Len(t.rest) - 1)]

\* lines 141-147, one iteration of  for m in reversed(messages)
TrimForIter(t) ==
    IF t.rest = <<>> THEN [t EXCEPT !.pc = "return"]
    ELSE LET m == t.rest[Len(t.rest)]
             length == Len(m.content)
         IN  IF t.running + length <= t.max_chars
             THEN [t EXCEPT !.trimmed = Append(t.trimmed, m),
                            !.running = t.running + length,
                            !.rest = SubSeq(t.rest, 1, Len(t.rest) - 1)]
             ELSE [t EXCEPT !.pc = "return"]

\* line 150: return list(reversed(trimmed))
TrimReturn(t) == [t EXCEPT !.pc = "done", !.ret = Reversed(t.trimmed)]

TrimStep(t) ==
    IF t.pc = "test" THEN TrimTest(t)
    ELSE IF t.pc = "for" THEN TrimForIter(t)
    ELSE TrimReturn(t)

RECURSIVE TrimRun(_)
TrimRun(t) == IF t.pc = "done" THEN t ELSE TrimRun(TrimStep(t))

\* trim_messages(messages, max_chars)
trim_messages(messages, max_chars) ==
    TrimRun(TrimEntry(messages, max_chars)).ret

TrimIdle == tm = [TrimEntry(<<>>, 0) EXCEPT !.pc = "done"]


(***************************************************************************)
(* The conversations of src/backend/app.py: stream_chat (lines 789-985),   *)
(* upload_file (lines 1023-1130) and delete_conversation (lines            *)
(* 1159-1167) as concurrent requests on the Mongo collections              *)
(* "conversations" and "messages". Every step is one database operation.   *)
(***************************************************************************)
\* bounds of the conversation model
MaxReqs == 3
MaxConvs == 2
\* max_chars of line 904 (7500) and limit of line 868 (30), scaled down
TRIM_MAX_CHARS == 5
CONTEXT_LIMIT == 3
\* the lengths of the system prompt (lines 846-865), of the branding
\* (lines 873-876) and of the messages a client sends, scaled down
SystemPromptLen == 1
BrandingLen == 2
MsgLens == {1, 4}

Reqs == 1..MaxReqs
Users == {"u1", "u2"}

\* the request that runs nothing yet; first is kept as history when the
\* request has ended
NoReq ==
    [op |-> "none", pc |-> "new", user_id |-> "", conv_id |-> 0,
     message |-> <<>>, i |-> 0, status |-> 0,
     first |-> FALSE, payload |-> <<>>, sent |-> <<>>]

\* a document of the collection "messages" (by is history: the user of the
\* request that inserted it)
MessageDoc(conv_id, role, content, user_id) ==
    [conv_id |-> conv_id, role |-> role, content |-> content, by |-> user_id]

\* the end of a request: its answer; the locals are dropped
EndReq(q, status) ==
    [q EXCEPT !.pc = "done", !.status = status, !.message = <<>>, !.i = 0,
              !.payload = <<>>, !.sent = <<>>]

\* create_conversation (lines 244-253) and lines 1058-1067: the document of
\* a new conversation under a new _id
ConversationDoc(id, user_id) == [id |-> id, user_id |-> user_id]

\* ls_build_context(conv_id, limit) (lines 156-178): the messages of the
\* conversation by timestamp, role and content only, the last `limit`
ls_build_context(msgs, conv_id, limit) ==
    LET own == SelectSeq(msgs, LAMBDA m : m.conv_id = conv_id)
        formatted == [k \in 1..Len(own) |->
                         [role |-> own[k].role, content |-> own[k].content]]
    IN  IF Len(formatted) > limit
        THEN SubSeq(formatted, Len(formatted) - limit + 1, Len(formatted))
        ELSE formatted

\* the requests arrive in the order of their numbers (they are alike, and
\* any of them may overtake the ones before it at every later step)
Arrives(r) ==
    /\ req[r].pc = "new" /\ req[r].op = "none"
    /\ \A q \in 1..(r - 1) : req[q].op # "none"

\* stream_chat, lines 801-831: a new conversation when the request names
\* none; otherwise find_one, and 403 unless the conversation is there and
\* belongs to the user of the request
StreamChatEnter(r) ==
    /\ Arrives(r)
    /\ \E u \in Users, c \in 0..nconv, n \in MsgLens :
         LET q == [NoReq EXCEPT !.op = "stream_chat", !.user_id = u,
                                !.message = Filler(n)]
         IN  IF c = 0
             THEN /\ nconv < MaxConvs
                  /\ conversations' =
                        conversations \cup {ConversationDoc(nconv + 1, u)}
                  /\ nconv' = nconv + 1
                  /\ req' = [req EXCEPT ![r] =
                               [q EXCEPT !.conv_id = nconv + 1, !.pc = "add"]]
             ELSE /\ req' = [req EXCEPT ![r] =
                       IF ConversationDoc(c, u) \in conversations
                       THEN [q EXCEPT !.conv_id = c, !.pc = "add"]
                       ELSE EndReq([q EXCEPT !.conv_id = c], 403)]
                  /\ UNCHANGED <<conversations, nconv>>
    /\ UNCHANGED <<messages_db, ck, indexvars, trimvars, botvars>>

\* line 834: add_message(conv_id, "user", message)
StreamChatAdd(r) ==
    /\ req[r].pc = "add"
    /\ messages_db' = Append(messages_db,
                             MessageDoc(req[r].conv_id, "user",
                                        req[r].message, req[r].user_id))
    /\ req' = [req EXCEPT ![r].pc = "build"]
    /\ UNCHANGED <<conversations, nconv, ck, indexvars, trimvars, botvars>>

\* lines 868-904: the history of the conversation, the branding when the
\* history has one message at most, the payload, and the trimmed list of
\* messages for the model
StreamChatBuild(r) ==
    /\ req[r].pc = "build"
    /\ LET message_history ==
               ls_build_context(messages_db, req[r].conv_id, CONTEXT_LIMIT)
           is_first_reply == Len(message_history) <= 1
           user_message_payload ==
               (IF is_first_reply THEN Filler(BrandingLen) ELSE <<>>)
                   \o req[r].message
           messages_for_ai ==
               <<[role |-> "system", content |-> Filler(SystemPromptLen)]>>
                   \o message_history
                   \o <<[role |-> "user", content |-> user_message_payload]>>
       IN  req' = [req EXCEPT ![r].first = is_first_reply,
                              ![r].payload = user_message_payload,
                              ![r].sent = trim_messages(messages_for_ai,
                                                        TRIM_MAX_CHARS),
                              ![r].pc = "stream"]
    /\ UNCHANGED <<conversations, messages_db, nconv,
                   ck, indexvars, trimvars, botvars>>

\* generate_stream, lines 909-956: the model streams final_text (nothing
\* when the stream fails), then insert_one of the assistant message and
\* update_one of the conversation (which changes no field of the model and
\* no document when the conversation is gone)
StreamChatSave(r) ==
    /\ req[r].pc = "stream"
    /\ \E n \in 0..1 :
         messages_db' = Append(messages_db,
                               MessageDoc(req[r].conv_id, "assistant",
                                          Filler(n), req[r].user_id))
    /\ req' = [req EXCEPT ![r] = EndReq(req[r], 200)]
    /\ UNCHANGED <<conversations, nconv, ck, indexvars, trimvars, botvars>>

\* upload_file, lines 1033-1067: a new conversation when the request names
\* none; a conversation the request names is not looked up
UploadEnter(r) ==
    /\ Arrives(r)
    /\ \E u \in Users, c \in 0..nconv :
         LET q == [NoReq EXCEPT !.op = "upload_file", !.user_id = u,
                                !.pc = "insert"]
         IN  IF c = 0
             THEN /\ nconv < MaxConvs
                  /\ conversations' =
                        conversations \cup {ConversationDoc(nconv + 1, u)}
                  /\ nconv' = nconv + 1
                  /\ req' = [req EXCEPT ![r] = [q EXCEPT !.conv_id = nconv + 1]]
             ELSE /\ req' = [req EXCEPT ![r] = [q EXCEPT !.conv_id = c]]
                  /\ UNCHANGED <<conversations, nconv>>
    /\ UNCHANGED <<messages_db, ck, indexvars, trimvars, botvars>>

\* the three messages of an upload: the file content (line 1071), the
\* notice of the upload (line 1079), the summary of ask_ai (line 1095)
UploadRoles == <<"system", "user", "assistant">>

\* lines 1071-1106, one insert_one; after the third, update_one of the
\* conversation and the answer
UploadInsert(r) ==
    /\ req[r].pc = "insert"
    /\ messages_db' = Append(messages_db,
                             MessageDoc(req[r].conv_id,
                                        UploadRoles[req[r].i + 1],
                                        Filler(1), req[r].user_id))
    /\ req' = [req EXCEPT ![r] = IF req[r].i + 1 = Len(UploadRoles)
                                  THEN EndReq(req[r], 200)
                                  ELSE [req[r] EXCEPT !.i = @ + 1]]
    /\ UNCHANGED <<conversations, nconv, ck, indexvars, trimvars, botvars>>

\* delete_conversation, line 1162: delete_one of the conversation
DeleteConversation(r) ==
    /\ Arrives(r)
    /\ \E c \in 1..nconv :
         /\ conversations' = {d \in conversations : d.id # c}
         /\ req' = [req EXCEPT ![r] =
                       [NoReq EXCEPT !.op = "delete_conversation",
                                     !.conv_id = c, !.pc = "delete_many"]]
    /\ UNCHANGED <<messages_db, nconv, ck, indexvars, trimvars, botvars>>

\* lines 1163-1164: delete_many of the messages, and the answer
DeleteMessages(r) ==
    /\ req[r].pc = "delete_many"
    /\ messages_db' = SelectSeq(messages_db,
                                LAMBDA m : m.conv_id # req[r].conv_id)
    /\ req' = [req EXCEPT ![r] = EndReq(req[r], 200)]
    /\ UNCHANGED <<conversations, nconv, ck, indexvars, trimvars, botvars>>

ChatIdle ==
    /\ conversations = {}
    /\ messages_db = <<>>
    /\ req = [r \in Reqs |-> NoReq]
    /\ nconv = 0


(***************************************************************************)
(* The WhatsApp bot (src/whatsapp_bot.py): whatsapp_reply, lines 79-174,   *)
(* the handler of one incoming message. (In the file lines 89-96 stand at  *)
(* the indentation of the module, which Python refuses to compile; the     *)
(* model reads them as section 1 of the handler, where the comments of     *)
(* the file place them.)                                                   *)
(***************************************************************************)
\* bound of the number of generated PDF files
MaxPdfs == 2

Senders == {"s1", "s2"}

\* the messages a sender can write: a menu keyword (line 99), a choice of
\* the menu (lines 108-120), "pdf" (line 163), any other text
Bodies == {"menu", "1", "2", "3", "pdf", "text"}

Tasks == {"summarize", "contract", "explain"}

\* lines 108-120: the task that a choice of the menu starts
TaskOf(body) ==
    IF body = "1" THEN "summarize"
    ELSE IF body = "2" THEN "contract" ELSE "explain"

\* whatsapp_reply for a message `body` of a sender in stage `stage`
\* ("absent": not in user_state) with n files in PDF_DIR: the new stage,
\* the answer and the new number of files
whatsapp_reply(stage, body, n) ==
    IF stage = "absent"
    THEN [stage |-> "menu", reply |-> "welcome", files |-> n]
    ELSE IF body = "menu"
    THEN [stage |-> "menu", reply |-> "menu", files |-> n]
    ELSE IF stage = "menu"
    THEN IF body \in {"1", "2", "3"}
         THEN [stage |-> TaskOf(body), reply |-> "ask_input", files |-> n]
         ELSE [stage |-> "menu", reply |-> "invalid_choice", files |-> n]
    ELSE IF stage \in Tasks
    THEN [stage |-> "menu", reply |-> "task_completed_type_pdf",
          files |-> n + 1]
    ELSE IF body = "pdf"
    THEN IF n > 0
         THEN [stage |-> stage, reply |-> "latest_pdf", files |-> n]
         ELSE [stage |-> stage, reply |-> "no_document", files |-> n]
    ELSE [stage |-> stage, reply |-> "fallback", files |-> n]

\* one message of a sender is handled
WhatsappReply(sender, body) ==
    LET out == whatsapp_reply(user_state[sender], body, pdf_files)
    IN  /\ out.files <= MaxPdfs
        /\ user_state' = [user_state EXCEPT ![sender] = out.stage]
        /\ pdf_files' = out.files
        /\ answer' = [answer EXCEPT ![sender] =
                         [body |-> body, reply |-> out.reply]]
        /\ UNCHANGED <<ck, indexvars, trimvars, chatvars>>

BotIdle ==
    /\ user_state = [s \in Senders |-> "absent"]
    /\ pdf_files = 0
    /\ answer = [s \in Senders |-> [body |-> "", reply |-> "none"]]

AppIdle == TrimIdle /\ ChatIdle /\ BotIdle

(***************************************************************************)
(* The specifications.                                                     *)
(***************************************************************************)
IndexIdle ==
    /\ embeddings = {}
    /\ index_file = [n \in IndexNames |-> NoFile]
    /\ proc = [p \in Procs |-> Idle]
    /\ ncalls = 0

ChunkIdle == ck = [text |-> <<>>, chunk_size |-> DEFAULT_CHUNK_SIZE,
                   overlap |-> DEFAULT_OVERLAP, s |-> ChunkEntry(<<>>)]

Init ==
    /\ groq_on \in BOOLEAN
    /\ st_on \in BOOLEAN
    /\ IndexIdle
    /\ ChunkIdle
    /\ AppIdle

Next ==
    \E p \in Procs :
        \/ CallIndexDocument(p)
        \/ IdxEmbed(p)
        \/ IdxInsert(p)
        \/ IdxAddSave(p)
        \/ CallRetrieve(p)
        \/ RetSearch(p)
        \/ RetLookup(p)
        \/ CallReindex(p)
        \/ RxDelete(p)
        \/ RxFile(p)
        \/ RxSave(p)

Spec == Init /\ [][Next]_vars


(***************************************************************************)
(* The chunker specification: one call of chunk_text on every input.       *)
(***************************************************************************)
ChunkInit ==
    /\ \E text \in Texts \cup LongTexts, cs \in 1..MaxChunkSize,
          ov \in 0..MaxOverlap :
          ck = [text |-> text, chunk_size |-> cs, overlap |-> ov,
                s |-> ChunkEntry(text)]
    /\ groq_on = FALSE
    /\ st_on = TRUE
    /\ IndexIdle
    /\ AppIdle

ChunkFor ==
    /\ ck.s.pc = "for" /\ ck.s.parts # <<>>
    /\ ck' = [ck EXCEPT !.s = ForIter(ck.s, ck.chunk_size, ck.overlap)]
    /\ UNCHANGED <<indexvars, appvars>>

ChunkWhile ==
    /\ ck.s.pc = "while"
    /\ Len(ck.s.chunks) < MaxChunks
    /\ ck' = [ck EXCEPT !.s = WhileIter(ck.s, ck.chunk_size, ck.overlap)]
    /\ UNCHANGED <<indexvars, appvars>>

ChunkReturn ==
    /\ ck.s.pc = "for" /\ ck.s.parts = <<>>
    /\ ck' = [ck EXCEPT !.s = Return(ck.s)]
    /\ UNCHANGED <<indexvars, appvars>>

ChunkNext == ChunkFor \/ ChunkWhile \/ ChunkReturn

SpecChunk == ChunkInit /\ [][ChunkNext]_vars

\* the call runs on: chunk_text is sequential code
FairSpecChunk == SpecChunk /\ WF_vars(ChunkNext)

(***************************************************************************)
(* The specification of trim_messages: one call on every input.            *)
(***************************************************************************)
TrimInit ==
    /\ \E n \in 0..MaxMsgs : \E messages \in MsgLists(n) :
          \E max_chars \in 0..MaxTrimChars :
             tm = TrimEntry(messages, max_chars)
    /\ groq_on = FALSE
    /\ st_on = TRUE
    /\ IndexIdle
    /\ ChunkIdle
    /\ ChatIdle
    /\ BotIdle

TrimDoTest ==
    /\ tm.pc = "test"
    /\ tm' = TrimTest(tm)
    /\ UNCHANGED <<ck, indexvars, chatvars, botvars>>

TrimDoFor ==
    /\ tm.pc = "for"
    /\ tm' = TrimForIter(tm)
    /\ UNCHANGED <<ck, indexvars, chatvars, botvars>>

TrimDoReturn ==
    /\ tm.pc = "return"
    /\ tm' = TrimReturn(tm)
    /\ UNCHANGED <<ck, indexvars, chatvars, botvars>>

TrimNext == TrimDoTest \/ TrimDoFor \/ TrimDoReturn

SpecTrim == TrimInit /\ [][TrimNext]_vars

(***************************************************************************)
(* The specification of the conversations: MaxReqs concurrent requests.    *)
(***************************************************************************)
ChatInit ==
    /\ ChatIdle
    /\ TrimIdle
    /\ BotIdle
    /\ groq_on = FALSE
    /\ st_on = TRUE
    /\ IndexIdle
    /\ ChunkIdle

ChatNext ==
    \E r \in Reqs :
        \/ StreamChatEnter(r)
        \/ StreamChatAdd(r)
        \/ StreamChatBuild(r)
        \/ StreamChatSave(r)
        \/ UploadEnter(r)
        \/ UploadInsert(r)
        \/ DeleteConversation(r)
        \/ DeleteMessages(r)

SpecChat == ChatInit /\ [][ChatNext]_vars

(***************************************************************************)
(* The specification of the WhatsApp bot: messages of the senders, handled *)
(* one at a time.                                                          *)
(***************************************************************************)
BotInit ==
    /\ BotIdle
    /\ TrimIdle
    /\ ChatIdle
    /\ groq_on = FALSE
    /\ st_on = TRUE
    /\ IndexIdle
    /\ ChunkIdle

BotNext == \E sender \in Senders, body \in Bodies : WhatsappReply(sender, body)

SpecBot == BotInit /\ [][BotNext]_vars

(***************************************************************************)
(* Properties of the chunker.                                              *)
(***************************************************************************)
ValidCfg == ck.overlap < ck.chunk_size
ChunkDone == ck.s.pc = "done"

\* the last n characters of s (all of s when it is shorter)
LastN(s, n) == SubSeq(s, Max(Len(s) - n, 0) + 1, Len(s))

NonWs(s) == SelectSeq(s, LAMBDA c : c \notin Whitespace)

RECURSIVE JoinParas(_)
JoinParas(ps) ==
    IF ps = <<>> THEN <<>>
    ELSE IF Len(ps) = 1 THEN ps[1]
    ELSE ps[1] \o <<"\n", "\n">> \o JoinParas(Tail(ps))

RECURSIVE StripAll(_)
StripAll(ps) ==
    IF ps = <<>> THEN <<>> ELSE <<Strip(Head(ps))>> \o StripAll(Tail(ps))

\* the content of a text: its non-blank paragraphs, each without the
\* whitespace around it, one blank line between two
Content(text) ==
    JoinParas(SelectSeq(StripAll(ReSplit(text)), LAMBDA p : p # <<>>))

\* the chunks put together again: a chunk that goes on inside a hard-split
\* paragraph loses the `overlap` characters it repeats, any other chunk
\* starts a new paragraph
RECURSIVE Rebuild(_, _, _, _)
Rebuild(chunks, cont, overlap, i) ==
    IF i = 0 THEN <<>>
    ELSE IF cont[i]
         THEN Rebuild(chunks, cont, overlap, i - 1)
                  \o PySuffixFrom(chunks[i], overlap)
         ELSE IF i = 1 THEN chunks[1]
         ELSE Rebuild(chunks, cont, overlap, i - 1)
                  \o <<"\n", "\n">> \o chunks[i]

Rebuilt == Rebuild(ck.s.chunks, ck.s.cont, ck.overlap, Len(ck.s.chunks))

\* C5: for a non-empty text and 0 <= overlap < chunk_size, the chunks that
\* chunk_text returns, put together in order with the repeated overlap of
\* every hard-split continuation removed, are the content of the text: no
\* non-whitespace character is lost or moved, and the non-blank paragraphs
\* come back whole.
C5_ChunksReconstructContent ==
    (ValidCfg /\ ChunkDone /\ ck.text # <<>>) =>
        /\ NonWs(Rebuilt) = NonWs(ck.text)
        /\ Rebuilt = Content(ck.text)

\* a returned call that cut a long paragraph with a real overlap and also
\* started a chunk at a paragraph boundary
C5_Witness ==
    /\ ValidCfg /\ ChunkDone /\ ck.overlap >= 1
    /\ \E i, j \in 2..Len(ck.s.chunks) : ck.s.cont[i] /\ ~ck.s.cont[j]

\* C6 as stated: every chunk but the first begins with the last `overlap`
\* characters of the chunk before it.
C6_EveryChunkOverlapsPrevious ==
    (ValidCfg /\ ChunkDone) =>
        \A i \in 2..Len(ck.s.chunks) :
            PyPrefix(ck.s.chunks[i], ck.overlap)
                = LastN(ck.s.chunks[i - 1], ck.overlap)

\* C6 amended: a chunk that goes on inside a paragraph cut by the hard split
\* begins with the last `overlap` characters of the chunk before it; the
\* first chunk never does.
C6_HardSplitChunksOverlapPrevious ==
    ValidCfg =>
        \A i \in 1..Len(ck.s.chunks) :
            ck.s.cont[i] =>
                /\ i >= 2
                /\ Len(ck.s.chunks[i]) >= ck.overlap
                /\ PyPrefix(ck.s.chunks[i], ck.overlap)
                       = LastN(ck.s.chunks[i - 1], ck.overlap)
                /\ Len(ck.s.chunks[i - 1]) >= ck.overlap

\* a returned call with a hard-split continuation chunk, overlap >= 2
C6_Witness ==
    /\ ValidCfg /\ ChunkDone /\ ck.overlap >= 2
    /\ \E i \in 2..Len(ck.s.chunks) : ck.s.cont[i]

\* C7: with 0 <= overlap < chunk_size every chunk is non-empty and has at
\* most chunk_size characters, the chunks joined from several paragraphs
\* included.
C7_ChunksNonEmptyAndBounded ==
    ValidCfg =>
        /\ \A i \in 1..Len(ck.s.chunks) :
              /\ ck.s.chunks[i] # <<>>
              /\ Len(ck.s.chunks[i]) <= ck.chunk_size
        /\ Len(ck.s.buf) <= ck.chunk_size

\* a returned chunk of exactly chunk_size characters that joins two
\* paragraphs with a blank line
C7_Witness ==
    /\ ValidCfg /\ ChunkDone
    /\ \E i \in 1..Len(ck.s.chunks) :
          /\ Len(ck.s.chunks[i]) = ck.chunk_size
          /\ \E k \in 1..(Len(ck.s.chunks[i]) - 1) :
                ck.s.chunks[i][k] = "\n" /\ ck.s.chunks[i][k + 1] = "\n"

\* C8 as stated: with overlap >= chunk_size the call never returns chunks
\* (it is to fail with InvalidConfiguration).
C8_InvalidOverlapNeverReturns ==
    (ck.overlap >= ck.chunk_size) => ~ChunkDone

\* C9: with 0 <= overlap < chunk_size every iteration of the hard-split
\* loop strictly shortens temp, and the call returns.
C9_ChunkTextTerminates ==
    /\ [][(ValidCfg /\ ck.s.pc = "while" /\ ck'.s.pc = "while")
             => Len(ck'.s.temp) < Len(ck.s.temp)]_vars
    /\ (ValidCfg => <>ChunkDone)

\* a returned call that went through the hard-split loop three times
C9_Witness ==
    /\ ValidCfg /\ ChunkDone
    /\ Cardinality({i \in 1..Len(ck.s.chunks) : ck.s.cont[i]}) >= 3

(***************************************************************************)
(* Properties of the index.                                                *)
(***************************************************************************)
\* a call of process p has ended
Ended(p, op) == proc[p].op = op /\ proc[p].pc = "idle"
Returned(p, op) == Ended(p, op) /\ proc[p].outcome = "returned"

\* the metas and the vectors that call number c has put into the store
MetasOfCall(c) == {m \in embeddings : m.faiss_id[1] = c}
VecsOfCall(c) ==
    UNION { {e \in index_file[n].vecs : e.id[1] = c} : n \in IndexNames }

\* a stored chunk that retrieve can return: its vector is in the index file
\* of its collection, under its faiss_id
IndexedIds(name) == {e.id : e \in index_file[name].vecs}
Searchable(m) == m \in embeddings /\ m.faiss_id \in IndexedIds(m.index_name)

RECURSIVE SeqToSet(_)
SeqToSet(q) == IF q = <<>> THEN {} ELSE {Head(q)} \cup SeqToSet(Tail(q))

\* the chunks of the files whose text reindex_all_files can extract, but
\* for the files in failed
ExtractableChunks(failed) ==
    UNION { { <<f.id, c>> :
              c \in SeqToSet(chunk_text(f.text, DEFAULT_CHUNK_SIZE,
                                        DEFAULT_OVERLAP)) } :
            f \in {g \in FileRecords : /\ g.path = "exists"
                                       /\ g.extract = "ok"
                                       /\ g.id \notin failed} }

IsBlank(text) == \A i \in 1..Len(text) : text[i] \in Whitespace

\* C1 as stated: when reindex_all_files has returned (and no call was
\* started since), the collection holds exactly the chunks of the files whose
\* text could be extracted (and whose index_document did not raise), every
\* one of them stored by this reindex and searchable.
C1_ReindexRebuildsCollection ==
    \A p \in Procs :
        (Returned(p, "reindex") /\ proc[p].call = ncalls) =>
            LET metas == {m \in embeddings :
                             m.index_name = proc[p].index_name}
            IN  /\ {<<m.file_record_id, m.chunk_text>> : m \in metas}
                       = ExtractableChunks(proc[p].failed)
                /\ \A m \in metas : m.faiss_id[1] = proc[p].call
                /\ \A m \in metas : Searchable(m)

\* C2 as stated: when two index_document calls on different documents and
\* the same collection have both returned (and no call was started since),
\* the chunks of both are stored with their vectors.
C2_ConcurrentIndexingKeepsBoth ==
    \A p, q \in Procs :
        (/\ p # q
         /\ Returned(p, "index") /\ Returned(q, "index")
         /\ proc[p].index_name = proc[q].index_name
         /\ proc[p].file # proc[q].file
         /\ ncalls = Max(proc[p].call, proc[q].call)) =>
            \A r \in {p, q} : \A i \in 1..Len(proc[r].ret) :
                Searchable(proc[r].ret[i])

C4_DimensionMismatchStoresNothing ==
    /\ \A n \in IndexNames : \A e \in index_file[n].vecs :
          e.vec.dim = index_file[n].d
    /\ \A p \in Procs :
          (Ended(p, "index") /\ proc[p].err = "dimension") =>
              MetasOfCall(proc[p].call) = {}

\* every whitespace-only text of up to four characters
RECURSIVE BlankTextsOfLen(_)
BlankTextsOfLen(n) ==
    IF n = 0 THEN {<<>>}
    ELSE {Append(t, c) : t \in BlankTextsOfLen(n - 1), c \in Whitespace}

BlankTexts == UNION {BlankTextsOfLen(n) : n \in 0..4}

\* chunk_text returns no chunk for any of them, whatever the configuration
BlankTextsGiveNoChunk ==
    \A t \in BlankTexts \cup {f.text : f \in {g \in FileRecords :
                                                IsBlank(g.text)}} :
        \A cs \in 1..MaxChunkSize : \A ov \in 0..(cs - 1) :
            chunk_text(t, cs, ov) = <<>>

\* C10: chunk_text returns no chunk for an empty or whitespace-only text,
\* and index_document on such a text returns the empty list in one step that
\* calls no embedding backend and leaves the embeddings collection and the
\* index files as they are.
C10_BlankTextIndexesNothing ==
    [][\A p \in Procs :
         (/\ proc'[p] # proc[p]
          /\ proc'[p].op = "index"
          /\ proc[p].pc = "idle"
          /\ IsBlank(File(proc'[p].file).text)) =>
             /\ proc'[p].pc = "idle"
             /\ proc'[p].outcome = "returned"
             /\ proc'[p].ret = <<>>
             /\ ~proc'[p].embedded
             /\ embeddings' = embeddings
             /\ index_file' = index_file
             /\ BlankTextsGiveNoChunk]_vars

\* index_document has returned on the blank file 2 while the store holds the
\* chunks of an earlier call
C10_Witness ==
    \E p \in Procs :
        /\ Returned(p, "index")
        /\ IsBlank(File(proc[p].file).text)
        /\ proc[p].ret = <<>>
        /\ embeddings # {}
        /\ \E n \in IndexNames : index_file[n].vecs # {}

\* the chunks of a call, as a set of texts
ChunkTexts(l) == {l.chunks[k] : k \in 1..Len(l.chunks)}

\* a retrieve call that began when every index_document call had ended
LaterRetrieve(q) == proc[q].op = "retrieve" /\ proc[q].call > MaxCalls

\* C11 as stated: with the one deterministic embedder (sentence-transformers
\* only), once index_document has returned the metas of a document, a
\* retrieve in that collection that began later and whose query is the text
\* of one of the document's chunks returns that chunk first, with a score
\* above 0.99.
C11_ExactChunkQueryRanksFirst ==
    \A p, q \in Procs :
        (/\ ~groq_on /\ st_on
         /\ Returned(p, "index")
         /\ LaterRetrieve(q) /\ Ended(q, "retrieve")
         /\ proc[q].index_name = proc[p].index_name
         /\ proc[q].query \in ChunkTexts(proc[p])) =>
            /\ proc[q].outcome = "returned"
            /\ proc[q].ret # <<>>
            /\ proc[q].ret[1].chunk_text = proc[q].query
            /\ proc[q].ret[1].file_record_id = proc[p].file
            /\ proc[q].ret[1].score > 99

\* the score a stored chunk record has for the query vector qv
RecordScore(qv, m) == Score(qv, Embed(qv.backend, m.chunk_text))

\* C12 as stated: the hits that retrieve returns are at most top_k, in the
\* order of non-increasing score, and no chunk record of the collection that
\* is left out scores higher for the query than a hit.
C12_HitsAreTheTopScoringChunks ==
    [][\A p \in Procs :
         (proc[p].pc = "r_lookup" /\ proc'[p].pc = "idle") =>
            LET hits == proc'[p].ret
                qv == proc[p].vecs[1]
                ids == {hits[i].faiss_id : i \in 1..Len(hits)}
            IN  /\ Len(hits) <= proc[p].top_k
                /\ \A i \in 1..(Len(hits) - 1) :
                      hits[i].score >= hits[i + 1].score
                /\ \A m \in embeddings :
                      (m.index_name = proc[p].index_name
                       /\ m.faiss_id \notin ids) =>
                          \A i \in 1..Len(hits) :
                              RecordScore(qv, m) <= hits[i].score]_vars

\* the first step of a retrieve call of process p, on a collection whose
\* index file holds no vector (it is empty, or was never written)
SearchesEmptyIndex(p) ==
    /\ proc[p].pc = "r_search" /\ proc'[p] # proc[p]
    /\ index_file[proc[p].index_name].vecs = {}

\* C13 as stated: a retrieve on an empty or never created collection
\* returns the empty list, without an error, and changes neither the
\* embeddings collection nor an index file.
C13_EmptyCollectionGivesEmptyResult ==
    [][\A p \in Procs :
         SearchesEmptyIndex(p) =>
            /\ proc'[p].pc = "idle"
            /\ proc'[p].outcome = "returned"
            /\ proc'[p].ret = <<>>
            /\ embeddings' = embeddings
            /\ index_file' = index_file]_vars

\* C13 amended: a retrieve on an empty or never created collection ends in
\* its first step and changes neither the embeddings collection nor an index
\* file; it returns the empty list when the query is embedded, and the only
\* error it raises is the one of embed_texts, which it cannot raise when
\* sentence-transformers is available.
C13_EmptyCollectionGivesEmptyResultOrEmbedError ==
    [][\A p \in Procs :
         SearchesEmptyIndex(p) =>
            /\ proc'[p].pc = "idle"
            /\ \/ proc'[p].outcome = "returned" /\ proc'[p].err = "none"
               \/ /\ proc'[p].outcome = "raised"
                  /\ proc'[p].err = "embedding"
                  /\ ~st_on
            /\ proc'[p].ret = <<>>
            /\ embeddings' = embeddings
            /\ index_file' = index_file]_vars

\* with both backends on, a retrieve has returned the empty list from an
\* index file that exists, holds no vector, and has the dimension of Groq
C13_Witness ==
    \E q \in Procs :
        /\ groq_on /\ st_on
        /\ AllIdle /\ proc[q].call = ncalls
        /\ Returned(q, "retrieve") /\ proc[q].ret = <<>>
        /\ index_file[proc[q].index_name].exists
        /\ index_file[proc[q].index_name].vecs = {}
        /\ \E n \in IndexNames : ~index_file[n].exists

\* C14: a retrieve whose query embedding fails raises the error to its
\* caller; where no backend can embed, no retrieve returns a result, and a
\* retrieve that returns has embedded its query.
C14_QueryEmbeddingFailureIsRaised ==
    \A q \in Procs :
        Ended(q, "retrieve") =>
            /\ (proc[q].err = "embedding") => (proc[q].outcome = "raised")
            /\ (~groq_on /\ ~st_on) => (proc[q].outcome = "raised")
            /\ (proc[q].outcome = "returned") =>
                   (proc[q].embedded /\ proc[q].err = "none")

\* the query embedding failed for a retrieve on a collection whose chunks
\* were stored and indexed before it began
C14_Witness ==
    \E q \in Procs :
        /\ LaterRetrieve(q)
        /\ Ended(q, "retrieve") /\ proc[q].err = "embedding"
        /\ proc[q].outcome = "raised"
        /\ index_file[proc[q].index_name].vecs # {}
        /\ \E m \in embeddings : m.index_name = proc[q].index_name

\* the files of which reindex_all_files hands a text with chunks to
\* index_document
IndexableFiles ==
    {f \in FileRecords : /\ f.path = "exists" /\ f.extract = "ok"
                         /\ ~IsBlank(f.text)}

\* the chunk texts that call c has stored for file id
StoredTexts(c, id) ==
    {m.chunk_text : m \in {x \in MetasOfCall(c) : x.file_record_id = id}}

\* C16: reindex_all_files does not end with the error of a document: the
\* only error it raises is the one of get_sentence_model before the loop;
\* when it has returned (and no call was started since) it has gone through
\* every file, and every file with chunks whose index_document did not raise
\* has all its chunk records stored by this call.
C16_ReindexSurvivesDocumentFailures ==
    \A p \in Procs :
        Ended(p, "reindex") =>
            /\ (proc[p].outcome = "raised") =>
                   (proc[p].err = "model" /\ ~groq_on /\ ~st_on)
            /\ (proc[p].outcome = "returned" /\ proc[p].call = ncalls) =>
                   \A f \in IndexableFiles :
                       f.id \notin proc[p].failed =>
                           StoredTexts(proc[p].call, f.id)
                               = SeqToSet(chunk_text(f.text,
                                                     DEFAULT_CHUNK_SIZE,
                                                     DEFAULT_OVERLAP))

\* reindex_all_files has returned after index_document raised for file 1,
\* and the chunks of file 3, which comes later, are stored
C16_Witness ==
    \E p \in Procs :
        /\ Returned(p, "reindex") /\ proc[p].call = ncalls
        /\ 1 \in proc[p].failed
        /\ 3 \notin proc[p].failed
        /\ Cardinality(StoredTexts(proc[p].call, 3)) = 5

\* the files that reindex_all_files skips or fails on
SkippedOrFailed(failed) ==
    {f.id : f \in {g \in FileRecords : \/ g.path # "exists"
                                        \/ g.extract # "ok"
                                        \/ g.id \in failed}}

\* C17 as stated: reindex_all_files returns a summary: the number of chunks
\* it has indexed and the number of documents it has skipped or failed on.
C17_ReindexReturnsSummary ==
    \A p \in Procs :
        (Returned(p, "reindex") /\ proc[p].call = ncalls) =>
            /\ Len(proc[p].ret) = 2
            /\ proc[p].ret[1] = Cardinality(MetasOfCall(proc[p].call))
            /\ proc[p].ret[2] = Cardinality(SkippedOrFailed(proc[p].failed))

\* C20 as stated: every chunk record carries a sequence_index, and the
\* records that one index_document call stores for a document carry 0, 1,
\* 2, ... without a gap, in the order of the chunks in the text.
C20_SequenceIndexIsContiguous ==
    \A m \in embeddings :
        /\ "sequence_index" \in DOMAIN m
        /\ m.sequence_index \in 0..(Cardinality(MetasOfCall(m.faiss_id[1])) - 1)
        /\ \A x \in MetasOfCall(m.faiss_id[1]) :
              (x.file_record_id = m.file_record_id
               /\ x.sequence_index = m.sequence_index) => x = m

\* hit h of a retrieve in collection n is the chunk record m
HitOf(h, m, n) ==
    /\ m.index_name = n
    /\ m.faiss_id = h.faiss_id
    /\ m.chunk_text = h.chunk_text
    /\ m.file_record_id = h.file_record_id

\* C18: every hit that retrieve returns for collection T is a chunk record
\* that the embeddings collection holds under T when the hits are looked up.
C18_HitsAreStoredChunksOfTheCollection ==
    [][\A q \in Procs :
         (proc[q].pc = "r_lookup" /\ proc'[q].pc = "idle") =>
            \A i \in 1..Len(proc'[q].ret) :
                \E m \in embeddings :
                    HitOf(proc'[q].ret[i], m, proc[q].index_name)]_vars

\* a retrieve in one collection has returned hits while the other
\* collection holds records and vectors too
C18_Witness ==
    \E q \in Procs : \E n \in IndexNames :
        /\ Returned(q, "retrieve") /\ proc[q].ret # <<>>
        /\ n # proc[q].index_name
        /\ index_file[n].vecs # {}
        /\ \E m \in embeddings : m.index_name = n
        /\ \E m \in embeddings : m.index_name = proc[q].index_name

\* C19: a step removes chunk records only as the delete_many of a
\* reindex_all_files, which removes the records of its collection and no
\* other; a step adds chunk records only as an insert of index_document,
\* under new ids and with every stored record left as it is; and the steps
\* of retrieve change neither the embeddings collection nor an index file.
C19_ChunkRecordsLifecycle ==
    [][/\ (embeddings \ embeddings' # {}) =>
             \E p \in Procs :
                 /\ proc[p].op = "reindex" /\ proc[p].pc = "x_delete"
                 /\ proc'[p].pc # "x_delete"
                 /\ embeddings' = {m \in embeddings :
                                      m.index_name # proc[p].index_name}
       /\ (embeddings' \ embeddings # {}) =>
             /\ \E p \in Procs :
                   proc[p].pc = "i_insert" /\ proc'[p] # proc[p]
             /\ embeddings \subseteq embeddings'
             /\ \A m \in embeddings' \ embeddings : \A x \in embeddings :
                   x.faiss_id # m.faiss_id
       /\ \A q \in Procs :
             (proc'[q].op = "retrieve" /\ proc'[q] # proc[q]) =>
                 (embeddings' = embeddings /\ index_file' = index_file)
      ]_vars

\* the records of two index_document calls on one file are stored side by
\* side, and a later retrieve has returned hits
C19_Witness ==
    \E q \in Procs : \E m, x \in embeddings :
        /\ LaterRetrieve(q) /\ Returned(q, "retrieve") /\ proc[q].ret # <<>>
        /\ m.faiss_id[1] # x.faiss_id[1]
        /\ m.file_record_id = x.file_record_id
        /\ m.index_name = x.index_name

C22_RemoteFailureIsRaisedWithoutFallback ==
    groq_on =>
        \A p \in Procs : \A i \in 1..Len(proc[p].vecs) :
            proc[p].vecs[i].backend = "groq"

\* C27: index_document is all-or-nothing: when a call of index_document has
\* raised (at embed_texts, add_with_ids or save_index), the embeddings
\* collection holds no chunk record of that call, so no record is left
\* without a vector in the index file by a failed call.
C27_FailedIndexDocumentLeavesNoRecord ==
    \A p \in Procs :
        (Ended(p, "index") /\ proc[p].outcome = "raised") =>
            MetasOfCall(proc[p].call) = {}

\* the non-blank paragraphs of a text, stripped (lines 90-96)
Paragraphs(text) == SelectSeq(StripAll(ReSplit(text)), LAMBDA p : p # <<>>)

\* the number of slices of a paragraph of n characters: the slices start
\* chunk_size - overlap characters apart, and the first one that reaches the
\* end of the paragraph is the last
NSlices(n, chunk_size, overlap) ==
    CHOOSE k \in 1..n :
        /\ n - (k - 1) * (chunk_size - overlap) <= chunk_size
        /\ \A j \in 1..(k - 1) :
              n - (j - 1) * (chunk_size - overlap) > chunk_size

\* the k-th slice of paragraph p: chunk_size characters from the position
\* `overlap` characters before the end of slice k - 1 (fewer at the end)
Slice(p, k, chunk_size, overlap) ==
    SubSeq(p, (k - 1) * (chunk_size - overlap) + 1,
              Min((k - 1) * (chunk_size - overlap) + chunk_size, Len(p)))

\* C23: with 0 <= overlap < chunk_size, a text that is one paragraph longer
\* than chunk_size is returned as its slices: every slice but the last has
\* exactly chunk_size characters, the last at most chunk_size, and every
\* slice after the first starts exactly `overlap` characters before the end
\* of the slice before it. In any text, a chunk that goes on inside a cut
\* paragraph follows a chunk of exactly chunk_size characters.
C23_LongParagraphIsCutIntoOverlappingSlices ==
    ValidCfg =>
        /\ \A i \in 1..Len(ck.s.chunks) :
              ck.s.cont[i] =>
                  (i >= 2 /\ Len(ck.s.chunks[i - 1]) = ck.chunk_size)
        /\ (/\ ChunkDone
            /\ Len(Paragraphs(ck.text)) = 1
            /\ Len(Paragraphs(ck.text)[1]) > ck.chunk_size) =>
              LET p == Paragraphs(ck.text)[1]
                  n == NSlices(Len(p), ck.chunk_size, ck.overlap)
              IN  /\ Len(ck.s.chunks) = n
                  /\ \A k \in 1..n :
                        ck.s.chunks[k] = Slice(p, k, ck.chunk_size, ck.overlap)
                  /\ \A k \in 1..(n - 1) :
                        Len(ck.s.chunks[k]) = ck.chunk_size
                  /\ Len(ck.s.chunks[n]) <= ck.chunk_size

\* a returned call on one paragraph cut into four slices or more with an
\* overlap, the last slice shorter than chunk_size
C23_Witness ==
    /\ ValidCfg /\ ChunkDone /\ ck.overlap >= 1
    /\ Len(Paragraphs(ck.text)) = 1
    /\ Len(ck.s.chunks) >= 4
    /\ Len(ck.s.chunks[Len(ck.s.chunks)]) < ck.chunk_size

(***************************************************************************)
(* Properties of trim_messages.                                            *)
(***************************************************************************)
TrimDone == tm.pc = "done"

\* the messages from position k on
SuffixFrom(messages, k) == SubSeq(messages, k, Len(messages))

\* the first position whose suffix has at most max_chars characters
FirstFit(messages, max_chars) ==
    CHOOSE k \in 1..(Len(messages) + 1) :
        /\ SumLen(SuffixFrom(messages, k)) <= max_chars
        /\ \A j \in 1..(k - 1) : SumLen(SuffixFrom(messages, j)) > max_chars

\* C24: trim_messages returns its input when the contents have at most
\* max_chars characters in all, and otherwise the longest suffix of the
\* input, in the input's order, whose contents have at most max_chars
\* characters: the result never has more than max_chars characters and
\* never holds a message without holding every newer one.
C24_TrimKeepsLongestFittingSuffix ==
    TrimDone =>
        /\ SumLen(tm.messages) <= tm.max_chars => tm.ret = tm.messages
        /\ tm.ret = SuffixFrom(tm.messages, FirstFit(tm.messages, tm.max_chars))
        /\ SumLen(tm.ret) <= tm.max_chars

\* a returned call that dropped an older message which would have fitted
\* with the messages it kept
C24_Witness ==
    /\ TrimDone
    /\ tm.ret # <<>>
    /\ Len(tm.ret) + 2 <= Len(tm.messages)
    /\ \E j \in 1..(Len(tm.messages) - Len(tm.ret) - 1) :
          Len(tm.messages[j].content) + SumLen(tm.ret) <= tm.max_chars

(***************************************************************************)
(* Properties of the conversations.                                        *)
(***************************************************************************)
\* the stream_chat requests that put the branding in front of their payload
\* for conversation c
Branded(c) ==
    {r \in Reqs : /\ req[r].op = "stream_chat"
                  /\ req[r].conv_id = c
                  /\ req[r].first}

\* C25: among all stream_chat requests of one conversation at most one puts
\* the branding in front of its payload, however the requests interleave.
C25_BrandingAtMostOncePerConversation ==
    \A c \in 1..MaxConvs : Cardinality(Branded(c)) <= 1

\* C28: the list of messages that stream_chat hands to the model, after
\* trim_messages, is not empty, and its last element is the user message
\* with the payload of the request.
C28_SentListEndsWithUserPayload ==
    \A r \in Reqs :
        (req[r].op = "stream_chat" /\ req[r].pc = "stream") =>
            /\ req[r].sent # <<>>
            /\ req[r].sent[Len(req[r].sent)]
                   = [role |-> "user", content |-> req[r].payload]

\* C29: no request inserts a message into a conversation whose stored
\* user_id is not the user_id of the request: every message of a stored
\* conversation was inserted by a request of the conversation's user.
C29_MessagesComeFromTheOwner ==
    \A k \in 1..Len(messages_db) : \A d \in conversations :
        d.id = messages_db[k].conv_id => messages_db[k].by = d.user_id

\* C30: once a delete_conversation of conversation c has answered, the
\* collection holds no message of c, whatever requests were in progress.
C30_DeletedConversationHasNoMessages ==
    \A r \in Reqs :
        (req[r].op = "delete_conversation" /\ req[r].pc = "done") =>
            \A k \in 1..Len(messages_db) :
                messages_db[k].conv_id # req[r].conv_id

(***************************************************************************)
(* Properties of the WhatsApp bot.                                         *)
(***************************************************************************)
\* C26: when the last answer to a sender was the end of a task, which tells
\* the sender to type "pdf", and the next message of that sender is "pdf",
\* the message is answered by the PDF download step: with the latest PDF
\* file, or with "No document found" when there is none.
C26_PdfAfterTaskReachesDownload ==
    [][\A s \in Senders :
         (/\ answer[s].reply = "task_completed_type_pdf"
          /\ answer'[s] # answer[s]
          /\ answer'[s].body = "pdf") =>
            answer'[s].reply \in {"latest_pdf", "no_document"}]_vars

\* the PDF download step answers no message at all
PdfDownloadStepNeverAnswers ==
    \A s \in Senders : answer[s].reply \notin {"latest_pdf", "no_document"}

====
